---- MODULE Spec2Model ----
(***************************************************************************)
(* Model of the tagged document store of workertown's search package:      *)
(* the sqlite adapter (packages/search/src/storage/sqlite.ts) and the D1   *)
(* adapter (packages/search/src/storage/d1-storage-adapter.ts).            *)
(*                                                                         *)
(* The database is two tables, wt_search_documents and wt_search_tags.     *)
(* Every adapter method is a sequence of awaited statements; each          *)
(* statement is atomic in the database, and the event loop may run other   *)
(* requests between two awaits.  A request is a process whose pc names     *)
(* the statement it issues next.                                           *)
(*                                                                         *)
(* The schema comes from a migration run (D1StorageAdapter.runMigrations,  *)
(* called by POST /migrate of packages/pub-sub/src/routers/v1/admin.ts),   *)
(* modelled in its own specification, MigSpec.                             *)
(***************************************************************************)
EXTENDS Integers, Sequences, FiniteSets, TLC

VARIABLES
    adapter,    \* which adapter class serves the requests: "sqlite" or "d1"
    docs,       \* rows of wt_search_documents / search_documents
    tagRows,    \* rows of wt_search_tags / search_tags
    clock,      \* the last reading of the wall clock (new Date()), in milliseconds
    procs,      \* the requests in flight: locals and position of each
    nops,       \* number of requests started so far
    mig,        \* the schema, the migration ledger and the migration run in progress
    config,     \* pub-sub: the content of the DEFAULT_OPTIONS object and the servers created
    queue,      \* pub-sub: the message batch the queue handler works on
    service     \* the last request that reached a storage operation

vars == <<adapter, docs, tagRows, clock, procs, nops, mig, config, queue, service>>

\* the variables of the document store
StoreVars == <<adapter, docs, tagRows, clock, procs, nops>>

\* the variables outside the document store and the migrations
PubSubVars == <<config, queue, service>>

----------------------------------------------------------------------------
(* Bounds of the model *)

MaxProcs == 2       \* requests that can be in flight together
MaxOps == 2         \* requests started in one behaviour
MaxClock == 2       \* largest clock reading (the first one is 1)
MaxTagList == 2     \* longest tag list passed to an upsert or a search
MaxMigrations == 2  \* migrations in the list handed to the migrator
MaxRuns == 2        \* migration runs in one behaviour
MaxServers == 2     \* calls of createPubSubServer in one behaviour
MaxBatch == 3       \* messages in the batch handed to the queue handler

Procs == 1..MaxProcs

(* Input domains *)
Adapters == {"sqlite", "d1"}
Ids == {"d1", "d2"}
Tenants == {"A", "B"}
Indexes == {"i1", "i2"}
Data == {"a", "b"}
\* one plain tag and one tag that contains the separator of group_concat
Tags == {"x", "y,z"}

TagLists == UNION {[1..n -> Tags] : n \in 0..MaxTagList}

Range(s) == {s[i] : i \in 1..Len(s)}

\* Array.prototype.filter on a tag list
RECURSIVE FilterSeq(_, _)
FilterSeq(s, keep) ==
    IF s = <<>> THEN <<>>
    ELSE IF Head(s) \in keep THEN <<Head(s)>> \o FilterSeq(Tail(s), keep)
         ELSE FilterSeq(Tail(s), keep)

\* JSON.stringify / JSON.parse of the payload: the stored text of a payload
JSONStringify(d) == <<"json", d>>
JSONParse(t) == t[2]

\* String.prototype.split(",") of one stored tag
SplitComma(t) == IF t = "y,z" THEN {"y", "z"} ELSE {t}

----------------------------------------------------------------------------
(* Requests *)

NoDoc == [id |-> "", tenant |-> "", index |-> "", data |-> ""]

\* pc, kind, doc, tags, now, existing, tagsToAdd, tagsToRemove: the position
\* and the locals of the method; error: the constraint a statement failed on;
\* pre, preTags: the rows of the document as its first statement found them
\* (history, read by the properties only)
Idle == [pc |-> "idle", kind |-> "none", doc |-> NoDoc, tags |-> <<>>,
         now |-> 0, existing |-> {}, tagsToAdd |-> <<>>, tagsToRemove |-> {},
         error |-> "", pre |-> {}, preTags |-> {}]

InFlight(p) == procs[p].pc \notin {"idle", "done", "failed"}

\* the migration names in name order: 1 is
\* 1688823193041_add_initial_tables_and_indexes, the others stand for the
\* migrations of later versions
MigrationNames == 1..MaxMigrations

\* the objects that the statements of up(db) create if not existing, in order
UpObjects(name) ==
    IF name = 1
    THEN <<"search_documents", "search_tags", "search_documents_id_idx",
           "search_documents_tenant_idx", "search_documents_tenant_index_idx",
           "search_tags_unique_idx">>
    ELSE <<"table">>

\* the statements of up(db): each object with the migration that creates it
UpStatements(name) == [i \in 1..Len(UpObjects(name)) |-> <<name, UpObjects(name)[i]>>]

\* table: does the ledger table exist; ledger: the recorded names; schema: the
\* tables and indexes; runs: runs started; pc, todo, cur, stmt: position of
\* the run; error: a statement of the run failed; failed: the migration whose
\* up() failed;
\* outcome: how the promise of runMigrations settled; status: the reply of
\* POST /migrate; ups, ddl, startLedger, startSchema: the migrations applied
\* and the DDL statements executed in this run, and the ledger and schema it
\* started from (history, read by the properties only)
NoRun == [table |-> FALSE, ledger |-> {}, schema |-> {}, runs |-> 0,
          pc |-> "idle", todo |-> <<>>, cur |-> 0, stmt |-> 0, error |-> FALSE, failed |-> 0,
          outcome |-> "none", status |-> 0,
          ups |-> <<>>, ddl |-> 0, startLedger |-> {}, startSchema |-> {}]

\* the options of createPubSubServer that the model follows, as paths
OptionKeys == {"basePath", "cors", "env.database"}

\* a property that is absent or undefined
Undefined == "undefined"

\* const DEFAULT_OPTIONS = { ..., basePath: "/", cors: false, env: { database: "PUBSUB_DB", ... } }
DEFAULT_OPTIONS ==
    [k \in OptionKeys |->
        IF k = "basePath" THEN "/" ELSE IF k = "cors" THEN "false" ELSE "PUBSUB_DB"]

\* the values a caller passes for an option
OptionValues(k) ==
    {Undefined} \cup (IF k = "basePath" THEN {"/", "/api"}
                      ELSE IF k = "cors" THEN {"false", "true"}
                      ELSE {"PUBSUB_DB", "DB"})

\* the module is loaded and no server has been created
NoServers == [defaults |-> DEFAULT_OPTIONS, servers |-> <<>>]

\* size: the messages of the batch; result: the promise of each delivery
\* ("pending", "fulfilled", "rejected"); index: position of the loop over the
\* results; calls: the ack() and retry() calls each message has received;
\* response: what the POST of each message met (history, read by the
\* properties only)
NoBatch == [pc |-> "idle", size |-> 0, result |-> <<>>, index |-> 0,
            calls |-> <<>>, response |-> <<>>]

\* no request has been served
NoRequest == [op |-> "none", executed |-> FALSE, migrated |-> FALSE, reply |-> "none"]

Init ==
    /\ config = NoServers
    /\ queue = NoBatch
    /\ service = NoRequest
    /\ adapter \in Adapters
    /\ docs = {}
    /\ tagRows = {}
    /\ clock = 1
    /\ procs = [p \in Procs |-> Idle]
    /\ nops = 0
    /\ mig = NoRun

\* rows of the documents table with this id
RowsOf(id) == {r \in docs : r.id = id}

\* tags stored for a document id
TagsOf(id) == {r.tag : r \in {t \in tagRows : t.search_document_id = id}}

----------------------------------------------------------------------------
(* The statements of upsertDocument / indexDocument *)

\* the row the existence check selects: .where id, tenant, index
MatchesKey(r, doc) ==
    /\ r.id = doc.id
    /\ r.tenant = doc.tenant
    /\ r.index = doc.index

\* the rows the UPDATE statement of an upsert touches
UpdateWhere(ad, r, doc) ==
    IF ad = "sqlite" THEN r.id = doc.id ELSE MatchesKey(r, doc)

\* the unique index covers (tenant, index, id) instead of (id)
DocInsertAllowedPerKey(rows, row) ==
    \A r \in rows : ~(r.id = row.id /\ r.tenant = row.tenant /\ r.index = row.index)

\* unique index wt_search_documents_id_idx on (id): may this row be inserted?
DocInsertAllowed(rows, row) == \A r \in rows : r.id # row.id

\* unique index wt_search_tags_unique_idx on (tag, search_document_id):
\* may these rows (one list of values, one statement) be inserted?
TagInsertAllowed(rows, id, toAdd) ==
    /\ Cardinality(Range(toAdd)) = Len(toAdd)
    /\ \A t \in Range(toAdd) : [tag |-> t, search_document_id |-> id] \notin rows

\* if (tags.length > 0): is the tag diff run at all?
RunsTagDiff(tags) == Len(tags) > 0

\* tagsToAdd: the input tags that have no row yet, in input order
TagsToAdd(tags, existingTags) == FilterSeq(tags, Range(tags) \ existingTags)

\* tagsToRemove: sqlite filters the existing tags against tagSet, the set of
\* the existing tags themselves; D1 filters them against the input tags
TagsToRemove(ad, tags, existingTags) ==
    IF ad = "sqlite"
    THEN {t \in existingTags : t \notin existingTags}
    ELSE {t \in existingTags : t \notin Range(tags)}

\* the tags stored for the document when the tag statements of an upsert
\* have run on a document with these stored tags
TagsAfterDiff(ad, tags, existingTags) ==
    IF RunsTagDiff(tags)
    THEN (existingTags \cup Range(TagsToAdd(tags, existingTags)))
             \ TagsToRemove(ad, tags, existingTags)
    ELSE existingTags

Set(p, f) == procs' = [procs EXCEPT ![p] = f]

\* a request takes the first free slot
FreeSlot(p) ==
    /\ procs[p].pc = "idle"
    /\ \A q \in Procs : q < p => procs[q].pc # "idle"

\* const now = new Date(): the clock never runs backwards
StartUpsert(p, doc, tags, now) ==
    /\ FreeSlot(p)
    /\ nops < MaxOps
    /\ nops' = nops + 1
    /\ now >= clock
    /\ clock' = now
    /\ Set(p, [Idle EXCEPT !.pc = "select", !.kind = "upsert", !.doc = doc,
                           !.tags = tags, !.now = now])
    /\ UNCHANGED <<PubSubVars, mig, adapter, docs, tagRows>>

\* const existing = await select id, created_at where id, tenant, index
SelectExisting(p) ==
    LET me == procs[p]
        found == {r \in docs : MatchesKey(r, me.doc)}
    IN  /\ me.pc = "select"
        /\ \E ex \in (IF found = {} THEN {{}} ELSE {{r} : r \in found}) :
              Set(p, [me EXCEPT !.pc = "write",
                                !.existing = {[id |-> r.id, created_at |-> r.created_at] : r \in ex},
                                !.pre = ex, !.preTags = TagsOf(me.doc.id)])
        /\ UNCHANGED <<PubSubVars, mig, adapter, docs, tagRows, clock, nops>>

\* the update replaces the row as a fresh insert would (insert or replace)
UpdateReplace(r, doc, now) ==
    [r EXCEPT !.data = JSONStringify(doc.data), !.created_at = now,
              !.updated_at = now]

\* .set({ data: JSON.stringify(document.data), updated_at: now.getTime() })
UpdateSet(r, doc, now) ==
    [r EXCEPT !.data = JSONStringify(doc.data), !.updated_at = now]

AfterWrite(me) == IF RunsTagDiff(me.tags) THEN "seltags" ELSE "done"

\* if (!existing) insert ... else update ...
WriteDocument(p) ==
    LET me == procs[p]
        row == [id |-> me.doc.id, tenant |-> me.doc.tenant, index |-> me.doc.index,
                data |-> JSONStringify(me.doc.data),
                created_at |-> me.now, updated_at |-> me.now]
    IN  /\ me.pc = "write"
        /\ IF me.existing = {}
           THEN IF DocInsertAllowed(docs, row)
                THEN /\ docs' = docs \cup {row}
                     /\ Set(p, [me EXCEPT !.pc = AfterWrite(me)])
                ELSE /\ docs' = docs
                     /\ Set(p, [me EXCEPT !.pc = "failed", !.error = "documents.id"])
           ELSE /\ docs' = {IF UpdateWhere(adapter, r, me.doc)
                            THEN UpdateSet(r, me.doc, me.now)
                            ELSE r : r \in docs}
                /\ Set(p, [me EXCEPT !.pc = AfterWrite(me)])
        /\ UNCHANGED <<PubSubVars, mig, adapter, tagRows, clock, nops>>

AfterSelectTags(toAdd, toRemove) ==
    IF toAdd # <<>> THEN "addtags" ELSE IF toRemove # {} THEN "remtags" ELSE "done"

\* const existingTags = await select ... ; tagsToAdd, tagsToRemove
SelectTags(p) ==
    LET me == procs[p]
        existingTags == TagsOf(me.doc.id)
        toAdd == TagsToAdd(me.tags, existingTags)
        toRemove == TagsToRemove(adapter, me.tags, existingTags)
    IN  /\ me.pc = "seltags"
        /\ Set(p, [me EXCEPT !.pc = AfterSelectTags(toAdd, toRemove),
                             !.tagsToAdd = toAdd, !.tagsToRemove = toRemove])
        /\ UNCHANGED <<PubSubVars, mig, adapter, docs, tagRows, clock, nops>>

\* if (tagsToAdd.length > 0) insert into tags values (...), one statement
InsertTags(p) ==
    LET me == procs[p]
    IN  /\ me.pc = "addtags"
        /\ IF TagInsertAllowed(tagRows, me.doc.id, me.tagsToAdd)
           THEN /\ tagRows' = tagRows \cup
                       {[tag |-> t, search_document_id |-> me.doc.id] : t \in Range(me.tagsToAdd)}
                /\ Set(p, [me EXCEPT !.pc = AfterSelectTags(<<>>, me.tagsToRemove)])
           ELSE /\ tagRows' = tagRows
                /\ Set(p, [me EXCEPT !.pc = "failed", !.error = "tags.unique"])
        /\ UNCHANGED <<PubSubVars, mig, adapter, docs, clock, nops>>

\* if (tagsToRemove.length > 0) delete from tags where id and tag in (...)
DeleteTags(p) ==
    LET me == procs[p]
    IN  /\ me.pc = "remtags"
        /\ tagRows' = {r \in tagRows : ~(r.search_document_id = me.doc.id
                                         /\ r.tag \in me.tagsToRemove)}
        /\ Set(p, [me EXCEPT !.pc = "done"])
        /\ UNCHANGED <<PubSubVars, mig, adapter, docs, clock, nops>>

----------------------------------------------------------------------------
(* The statements of deleteDocument *)

StartDelete(p, id) ==
    /\ FreeSlot(p)
    /\ nops < MaxOps
    /\ nops' = nops + 1
    /\ Set(p, [Idle EXCEPT !.pc = "deldoc", !.kind = "delete",
                           !.doc = [NoDoc EXCEPT !.id = id], !.now = clock])
    /\ UNCHANGED <<PubSubVars, mig, adapter, docs, tagRows, clock>>

\* the first delete has no where clause
DocDeleteAll(r, id) == TRUE

\* .where("id", "=", id) of the first delete
DocDeleteWhere(r, id) == r.id = id

\* await delete from documents where id
DeleteDocRows(p) ==
    LET me == procs[p]
    IN  /\ me.pc = "deldoc"
        /\ docs' = {r \in docs : ~DocDeleteWhere(r, me.doc.id)}
        /\ Set(p, [me EXCEPT !.pc = "deltags", !.pre = RowsOf(me.doc.id),
                             !.preTags = TagsOf(me.doc.id)])
        /\ UNCHANGED <<PubSubVars, mig, adapter, tagRows, clock, nops>>

\* the second delete removes nothing
TagDeleteNone(t, id) == FALSE

\* the second delete has no where clause
TagDeleteAll(t, id) == TRUE

\* .where("search_document_id", "=", id) of the second delete
TagDeleteWhere(t, id) == t.search_document_id = id

\* await delete from tags where search_document_id
DeleteTagRows(p) ==
    LET me == procs[p]
    IN  /\ me.pc = "deltags"
        /\ tagRows' = {r \in tagRows : ~TagDeleteWhere(r, me.doc.id)}
        /\ Set(p, [me EXCEPT !.pc = "done"])
        /\ UNCHANGED <<PubSubVars, mig, adapter, docs, clock, nops>>

----------------------------------------------------------------------------
(* Environment *)

\* the promise of the request settles and the caller has its result
Return(p) ==
    /\ procs[p].pc \in {"done", "failed"}
    /\ Set(p, Idle)
    /\ UNCHANGED <<PubSubVars, mig, adapter, docs, tagRows, clock, nops>>

\* the process dies between two statements of a request
Crash(p) ==
    /\ InFlight(p)
    /\ Set(p, Idle)
    /\ UNCHANGED <<PubSubVars, mig, adapter, docs, tagRows, clock, nops>>

Step(p) ==
    \/ SelectExisting(p)
    \/ WriteDocument(p)
    \/ SelectTags(p)
    \/ InsertTags(p)
    \/ DeleteTags(p)
    \/ DeleteDocRows(p)
    \/ DeleteTagRows(p)
    \/ Return(p)

\* a caller sends an upsert or a delete for one of these ids
Start(p, ids) ==
    /\ FreeSlot(p)
    /\ nops < MaxOps
    /\ \/ \E id \in ids, tenant \in Tenants, index \in Indexes, data \in Data,
              tags \in TagLists, now \in clock..MaxClock :
              StartUpsert(p, [id |-> id, tenant |-> tenant, index |-> index,
                              data |-> data], tags, now)
       \/ \E id \in ids : StartDelete(p, id)

\* requests interleave at their awaits, and the process may die
Next ==
    \/ \E p \in Procs : Start(p, Ids)
    \/ \E p \in Procs : Step(p)
    \/ \E p \in Procs : Crash(p)

Spec == Init /\ [][Next]_vars

\* one request at a time: the next one starts when the last one has returned
AllIdle == \A q \in Procs : procs[q].pc = "idle"

SeqNext ==
    \/ \E p \in Procs : AllIdle /\ Start(p, Ids)
    \/ \E p \in Procs : Step(p)

SeqSpec == Init /\ [][SeqNext]_vars

----------------------------------------------------------------------------
(* Migrations.  POST /migrate calls storage.runMigrations(), which hands the *)
(* list MIGRATIONS to a Migrator and awaits migrateToLatest().  The Migrator *)
(* creates its ledger table if absent, then applies the migrations that the  *)
(* ledger does not hold, in name order, recording each one after its up();   *)
(* the first failure ends the run and is returned in the result set.  Any    *)
(* statement that writes may fail in the backend.                            *)

\* every migration of the list counts as pending, recorded or not
PendingAll(ledger) == MigrationNames

\* the migrations that the ledger does not hold
Pending(ledger) == MigrationNames \ ledger

\* Object.keys(migrations).sort(): a set of names as a list in name order
RECURSIVE InNameOrder(_)
InNameOrder(names) ==
    IF names = {} THEN <<>>
    ELSE LET first == CHOOSE n \in names : \A m \in names : n <= m
         IN  <<first>> \o InNameOrder(names \ {first})

\* the statements of the current run that may fail
Outcomes == {"ok", "fails"}

\* router.post("/migrate"): await storage.runMigrations()
StartMigrate ==
    /\ mig.pc \in {"idle", "replied"}
    /\ mig.runs < MaxRuns
    /\ mig' = [mig EXCEPT !.pc = "ensure", !.runs = @ + 1, !.todo = <<>>,
                          !.cur = 0, !.stmt = 0, !.error = FALSE, !.failed = 0,
                          !.outcome = "none", !.status = 0, !.ups = <<>>, !.ddl = 0,
                          !.startLedger = mig.ledger, !.startSchema = mig.schema]
    /\ UNCHANGED <<PubSubVars, StoreVars>>

\* the ledger table is created if it does not exist
EnsureLedger ==
    /\ mig.pc = "ensure"
    /\ IF mig.table
       THEN mig' = [mig EXCEPT !.pc = "read"]
       ELSE \E o \in Outcomes :
              IF o = "ok"
              THEN mig' = [mig EXCEPT !.pc = "read", !.table = TRUE, !.ddl = @ + 1]
              ELSE mig' = [mig EXCEPT !.pc = "settle", !.error = TRUE]
    /\ UNCHANGED <<PubSubVars, StoreVars>>

\* the ledger is read once: the pending migrations of this run, in name order
ReadLedger ==
    /\ mig.pc = "read"
    /\ mig' = [mig EXCEPT !.pc = "pick", !.todo = InNameOrder(Pending(mig.ledger))]
    /\ UNCHANGED <<PubSubVars, StoreVars>>

\* the next migration to apply, or the end of the run
PickMigration ==
    /\ mig.pc = "pick"
    /\ IF mig.todo = <<>>
       THEN mig' = [mig EXCEPT !.pc = "settle"]
       ELSE mig' = [mig EXCEPT !.pc = "up", !.cur = Head(mig.todo),
                               !.todo = Tail(mig.todo), !.stmt = 1,
                               !.ups = Append(@, Head(mig.todo))]
    /\ UNCHANGED <<PubSubVars, StoreVars>>

\* one awaited statement of up(db): create ... if not exists
UpStatement ==
    /\ mig.pc = "up"
    /\ \E o \in Outcomes :
          IF o = "ok"
          THEN mig' = [mig EXCEPT
                         !.schema = @ \cup {UpStatements(mig.cur)[mig.stmt]},
                         !.ddl = @ + 1,
                         !.stmt = @ + 1,
                         !.pc = IF mig.stmt = Len(UpStatements(mig.cur))
                                THEN "record" ELSE "up"]
          ELSE mig' = [mig EXCEPT !.pc = "settle", !.error = TRUE,
                                  !.failed = mig.cur]
    /\ UNCHANGED <<PubSubVars, StoreVars>>

\* the name of the applied migration is inserted into the ledger
RecordMigration ==
    /\ mig.pc = "record"
    /\ \E o \in Outcomes :
          IF o = "ok"
          THEN mig' = [mig EXCEPT !.pc = "pick", !.ledger = @ \cup {mig.cur}]
          ELSE mig' = [mig EXCEPT !.pc = "settle", !.error = TRUE]
    /\ UNCHANGED <<PubSubVars, StoreVars>>

\* runMigrations of the base class of the sqlite adapter: rejects with the
\* error of the run
runMigrationsBase(error) == IF error THEN "rejected" ELSE "resolved"

\* D1StorageAdapter.runMigrations: await migrator.migrateToLatest(); the
\* result set, which carries the error, is dropped
runMigrationsD1(error) == "resolved"

\* try { await storage.runMigrations() } catch (_) { success = false }
MigrateStatus(outcome) == IF outcome = "rejected" THEN 500 ELSE 200

\* the run ends, runMigrations settles and the route replies
SettleRun ==
    /\ mig.pc = "settle"
    /\ LET outcome == IF adapter = "d1" THEN runMigrationsD1(mig.error)
                      ELSE runMigrationsBase(mig.error)
       IN  mig' = [mig EXCEPT !.pc = "replied", !.outcome = outcome,
                              !.status = MigrateStatus(outcome)]
    /\ UNCHANGED <<PubSubVars, StoreVars>>

MigNext ==
    \/ StartMigrate
    \/ EnsureLedger
    \/ ReadLedger
    \/ PickMigration
    \/ UpStatement
    \/ RecordMigration
    \/ SettleRun

MigSpec == Init /\ [][MigNext]_vars

----------------------------------------------------------------------------
(* The configuration of the pub-sub server.  DEFAULT_OPTIONS is one object   *)
(* of the module; lodash merge(object, source) assigns the defined           *)
(* properties of source into object, recursively, and returns object.        *)

\* the value of merge(object, source)
merge(object, source) ==
    [k \in OptionKeys |-> IF source[k] # Undefined THEN source[k] ELSE object[k]]

\* createPubSubServer(options): const config = merge(DEFAULT_OPTIONS, options);
\* the server keeps the values destructured from config
createPubSubServer(options) ==
    /\ Len(config.servers) < MaxServers
    /\ config' = [defaults |-> merge(config.defaults, options),
                  servers |-> Append(config.servers,
                                [options |-> options,
                                 config |-> merge(config.defaults, options)])]
    /\ UNCHANGED <<queue, service, mig, StoreVars>>

ConfigNext ==
    \E options \in [OptionKeys -> UNION {OptionValues(k) : k \in OptionKeys}] :
        /\ \A k \in OptionKeys : options[k] \in OptionValues(k)
        /\ createPubSubServer(options)

ConfigSpec == Init /\ [][ConfigNext]_vars

----------------------------------------------------------------------------
(* The queue handler of the pub-sub server: server.queue(batch).             *)

\* what the POST of a message can meet: an ok response, a response that is
\* not ok, or an exception (new URL, fetch)
Responses == {"ok", "notOk", "threw"}

\* the handler is called with a batch
ReceiveBatch(n) ==
    /\ queue.pc = "idle"
    /\ queue' = [pc |-> "deliver", size |-> n,
                 result |-> [i \in 1..n |-> "pending"], index |-> 0,
                 calls |-> [i \in 1..n |-> <<>>],
                 response |-> [i \in 1..n |-> "none"]]
    /\ UNCHANGED <<config, service, mig, StoreVars>>

\* the async callback of one message ends: if (!res.ok) throw new Error()
Deliver(i, response) ==
    /\ queue.pc = "deliver"
    /\ queue.result[i] = "pending"
    /\ queue' = [queue EXCEPT
                   !.result[i] = IF response = "ok" THEN "fulfilled" ELSE "rejected",
                   !.response[i] = response]
    /\ UNCHANGED <<config, service, mig, StoreVars>>

\* Promise.all: settles when all are fulfilled or one is rejected
PromiseAll(result) ==
    \/ \A i \in DOMAIN result : result[i] = "fulfilled"
    \/ \E i \in DOMAIN result : result[i] = "rejected"

\* Promise.allSettled: settles when no promise is pending
PromiseAllSettled(result) == \A i \in DOMAIN result : result[i] # "pending"

\* const results = await Promise.allSettled(...)
AwaitResults ==
    /\ queue.pc = "deliver"
    /\ PromiseAllSettled(queue.result)
    /\ queue' = [queue EXCEPT !.pc = "loop", !.index = 1]
    /\ UNCHANGED <<config, service, mig, StoreVars>>

\* if (result.status === "rejected") message.retry() else message.ack()
Decision(status) == IF status = "rejected" THEN "retry" ELSE "ack"

\* one round of for (const [index, result] of results.entries())
SettleMessage ==
    /\ queue.pc = "loop"
    /\ queue.index <= queue.size
    /\ queue' = [queue EXCEPT
                   !.calls[queue.index] = Append(@, Decision(queue.result[queue.index])),
                   !.index = @ + 1]
    /\ UNCHANGED <<config, service, mig, StoreVars>>

\* the loop ends and the handler returns
ReturnFromQueue ==
    /\ queue.pc = "loop"
    /\ queue.index > queue.size
    /\ queue' = [queue EXCEPT !.pc = "returned"]
    /\ UNCHANGED <<config, service, mig, StoreVars>>

QueueNext ==
    \/ \E n \in 0..MaxBatch : ReceiveBatch(n)
    \/ \E i \in 1..queue.size, response \in Responses : Deliver(i, response)
    \/ AwaitResults
    \/ SettleMessage
    \/ ReturnFromQueue

QueueSpec == Init /\ [][QueueNext]_vars

----------------------------------------------------------------------------
(* Requests to the server.  The middleware of createPubSubServer finds the   *)
(* storage adapter (the one passed in the options, or a D1StorageAdapter on  *)
(* the database binding of the environment) and calls next(); the route      *)
(* then calls a method of the adapter, which sends its first statement.      *)

\* the methods of the storage adapter
DocumentOps == {"get", "upsert", "delete", "list", "searchByTags", "getAllTags"}

\* a migration run has recorded every migration and has returned
Migrated ==
    /\ mig.ledger = MigrationNames
    /\ mig.runs > 1 \/ mig.pc = "replied"

\* the tables of the first migration exist
TablesExist == {<<1, "search_documents">>, <<1, "search_tags">>} \subseteq mig.schema

\* a request for a route that calls op; db: is there a storage adapter or a
\* database binding
ServeRequest(op, db) ==
    /\ service' = IF db
                  THEN [op |-> op, executed |-> TRUE, migrated |-> Migrated,
                        reply |-> IF TablesExist THEN "result" ELSE "no such table"]
                  ELSE [op |-> op, executed |-> FALSE, migrated |-> Migrated,
                        reply |-> "500 Database not found"]
    /\ UNCHANGED <<config, queue, mig, StoreVars>>

\* requests arrive while migration runs are started through POST /migrate
ServiceNext ==
    \/ MigNext
    \/ \E op \in DocumentOps, db \in BOOLEAN : ServeRequest(op, db)

ServiceSpec == Init /\ [][ServiceNext]_vars

----------------------------------------------------------------------------
(* The read methods.  A read is one statement; its result is a function of *)
(* the two tables.  ORDER BY updated_at leaves the order of rows with the  *)
(* same updated_at to the engine, so a read has a set of possible results. *)

\* options.index and options.limit when the caller leaves them out
NoIndex == ""
NoLimit == -1

\* group_concat(tag, ',') of the joined tag rows, then tags.split(",");
\* no joined row gives NULL, which _formatDocument turns into []
FormatTags(tags) == UNION {SplitComma(t) : t \in tags}

\* _formatDocument; the D1 adapter builds no tags property
FormatDocument(ad, row, tags) ==
    [id |-> row.id, tenant |-> row.tenant, index |-> row.index,
     data |-> JSONParse(row.data),
     hasTags |-> (ad = "sqlite"),
     tags |-> IF ad = "sqlite" THEN FormatTags(tags) ELSE {},
     createdAt |-> row.created_at, updatedAt |-> row.updated_at]

\* the index filter replaces the tenant filter instead of adding to it
ScopeWhereIndexOnly(r, tenant, index) ==
    IF index # NoIndex THEN r.index = index ELSE r.tenant = tenant

\* .where tenant = options.tenant, and if (options.index) .where index
ScopeWhere(r, tenant, index) ==
    /\ r.tenant = tenant
    /\ (index # NoIndex => r.index = index)

\* .orderBy(updated_at, "desc"): every order of the rows the engine may give
OrderByUpdatedDesc(rows) ==
    {s \in [1..Cardinality(rows) -> rows] :
        /\ \A i, j \in 1..Cardinality(rows) : i # j => s[i] # s[j]
        /\ \A i, j \in 1..Cardinality(rows) : i < j => s[i].updated_at >= s[j].updated_at}

\* .limit(options.limit)
Limit(s, limit) ==
    IF limit = NoLimit \/ limit >= Len(s) THEN s ELSE SubSeq(s, 1, limit)

\* one matching tag is enough (OR instead of AND)
HavingAny(tags) == 1

\* .having(count(documents.id), "=", tags.length): the number to reach
HavingCount(tags) == Len(tags)

\* the join of getDocumentsByTags: tag rows with their document row,
\* .where tag in tags, tenant, index; a tag row without document has no tenant
JoinByTags(tags, tenant, index) ==
    {<<t, r>> \in tagRows \X docs :
        /\ t.search_document_id = r.id
        /\ t.tag \in Range(tags)
        /\ ScopeWhere(r, tenant, index)}

\* the query starts from the documents and left-joins the matching tag rows
GroupsFromDocuments(tags, tenant, index) ==
    {r \in docs :
        /\ ScopeWhere(r, tenant, index)
        /\ Cardinality(TagsOf(r.id) \cap Range(tags)) = HavingCount(tags)}

\* .groupBy(documents.id).having(...): the document rows that are kept
GroupsByTags(tags, tenant, index) ==
    LET join == JoinByTags(tags, tenant, index)
    IN  {r \in {j[2] : j \in join} :
            Cardinality({j \in join : j[2].id = r.id}) = HavingCount(tags)}

\* getDocumentsByTags(tags, {tenant, index, limit}): the possible results
getDocumentsByTags(tags, tenant, index, limit) ==
    LET join == JoinByTags(tags, tenant, index)
        fmt(r) == FormatDocument(adapter, r, {j[1].tag : j \in {k \in join : k[2].id = r.id}})
    IN  {[i \in 1..Len(Limit(s, limit)) |-> fmt(s[i])] :
            s \in OrderByUpdatedDesc(GroupsByTags(tags, tenant, index))}

\* getDocuments({tenant, index, limit}): the possible results
getDocuments(tenant, index, limit) ==
    LET rows == {r \in docs : ScopeWhere(r, tenant, index)}
    IN  {[i \in 1..Len(Limit(s, limit)) |-> FormatDocument(adapter, s[i], TagsOf(s[i].id))] :
            s \in OrderByUpdatedDesc(rows)}

\* getDocument(id): the empty set for null, else the formatted document
getDocument(id) == {FormatDocument(adapter, r, TagsOf(id)) : r \in RowsOf(id)}

\* .select("tag") on the tag rows: each tag with the number of rows carrying it
TagColumn ==
    [t \in {r.tag : r \in tagRows} |-> Cardinality({r \in tagRows : r.tag = t})]

\* the select without distinct: one entry per row
SelectAll(column) == column

\* .distinct(): one entry per value
SelectDistinct(column) == [t \in DOMAIN column |-> 1]

\* getTags(): the returned list, as each tag with the number of its entries
getTags == SelectDistinct(TagColumn)

\* the ids of a result
IdsIn(result) == {result[i].id : i \in 1..Len(result)}

\* inputs of the reads
Limits == {NoLimit} \cup (0..Cardinality(Ids))
IndexOptions == {NoIndex} \cup Indexes

----------------------------------------------------------------------------
(* Properties *)

Done(p, kind) == procs[p].pc = "done" /\ procs[p].kind = kind

\* C1: when an upsert with tag list B has completed, the tags stored for its
\* document are exactly the tags of B, whatever was stored before
C1_StoredTagsEqualDesired ==
    \A p \in Procs :
        Done(p, "upsert") => TagsOf(procs[p].doc.id) = Range(procs[p].tags)

\* C2: when an upsert of an existing document with an empty tag list has
\* completed, no tag row references the document
C2_EmptyListClearsTags ==
    \A p \in Procs :
        (Done(p, "upsert") /\ procs[p].pre # {} /\ procs[p].tags = <<>>)
            => \A t \in tagRows : t.search_document_id # procs[p].doc.id

\* C3: when the second of two sequential upserts of one (tenant, index, id)
\* has completed, there is one row for the id and get(id) returns the second
\* call's data and tag set, the createdAt the first call left, and the second
\* call's timestamp as updatedAt, not smaller than the updatedAt it replaced
C3_SecondUpsertUpdates ==
    \A p \in Procs :
        (Done(p, "upsert") /\ procs[p].pre # {}) =>
            /\ Cardinality(RowsOf(procs[p].doc.id)) = 1
            /\ getDocument(procs[p].doc.id) # {}
            /\ \A g \in getDocument(procs[p].doc.id), first \in procs[p].pre :
                  /\ g.data = procs[p].doc.data
                  /\ IF g.hasTags THEN g.tags = Range(procs[p].tags)
                     ELSE TagsOf(procs[p].doc.id) = Range(procs[p].tags)
                  /\ g.createdAt = first.created_at
                  /\ g.updatedAt = procs[p].now
                  /\ g.updatedAt >= first.updated_at

\* non-empty tag lists without a repeated tag
DistinctTagLists == {s \in TagLists : s # <<>> /\ Cardinality(Range(s)) = Len(s)}

\* C4: searchByTags(tenant, T) without a limit, T non-empty and without
\* repetition, returns each document of the tenant (and of the index, when one
\* is given) whose stored tags include all of T, once, and no other document
C4_SearchReturnsSupersets ==
    \A tenant \in Tenants, index \in IndexOptions, tags \in DistinctTagLists :
        \A res \in getDocumentsByTags(tags, tenant, index, NoLimit) :
            /\ Len(res) = Cardinality(IdsIn(res))
            /\ IdsIn(res) = {r.id : r \in {d \in docs :
                                /\ d.tenant = tenant
                                /\ (index = NoIndex \/ d.index = index)
                                /\ Range(tags) \subseteq TagsOf(d.id)}}

\* a search for two tags returns a document that carries both and leaves out
\* a document of the same tenant that carries only one of them
C4_Witness ==
    \E tenant \in Tenants, tags \in DistinctTagLists, a \in docs, b \in docs :
        /\ Len(tags) = 2
        /\ a.tenant = tenant /\ b.tenant = tenant
        /\ TagsOf(b.id) \cap Range(tags) # {}
        /\ \E res \in getDocumentsByTags(tags, tenant, NoIndex, NoLimit) :
              a.id \in IdsIn(res) /\ b.id \notin IdsIn(res)

\* C5: searchByTags with an empty tag list returns no document, for every
\* tenant, index and limit
C5_EmptySearchReturnsNothing ==
    \A tenant \in Tenants, index \in IndexOptions, limit \in Limits :
        getDocumentsByTags(<<>>, tenant, index, limit) = {<<>>}

\* the tenant has a document with tags and one without, and the empty search
\* returns neither
C5_Witness ==
    \E tenant \in Tenants, a \in docs, b \in docs :
        /\ a.tenant = tenant /\ b.tenant = tenant
        /\ TagsOf(a.id) # {} /\ TagsOf(b.id) = {}
        /\ getDocumentsByTags(<<>>, tenant, NoIndex, NoLimit) = {<<>>}

\* C6: a tag list that repeats a tag returns what the list without the
\* repetition returns
C6_RepeatedTagIsIgnored ==
    \A tenant \in Tenants, index \in IndexOptions, t \in Tags :
        getDocumentsByTags(<<t, t>>, tenant, index, NoLimit)
            = getDocumentsByTags(<<t>>, tenant, index, NoLimit)

\* C7: no result of list or searchByTags requested for a tenant holds a
\* document stored under another tenant, whatever index, tags and limit
C7_TenantIsolation ==
    \A tenant \in Tenants, index \in IndexOptions, limit \in Limits :
        \A r \in docs :
            r.tenant # tenant =>
                /\ \A res \in getDocuments(tenant, index, limit) : r.id \notin IdsIn(res)
                /\ \A tags \in TagLists :
                      \A res \in getDocumentsByTags(tags, tenant, index, limit) :
                          r.id \notin IdsIn(res)

\* two tenants each hold a document of the same index with the same tag, and
\* the list and the search for one tenant return its own document alone
C7_Witness ==
    \E a \in docs, b \in docs, t \in Tags :
        /\ a.tenant # b.tenant /\ a.index = b.index
        /\ t \in TagsOf(a.id) /\ t \in TagsOf(b.id)
        /\ \E res \in getDocuments(b.tenant, b.index, NoLimit) : IdsIn(res) = {b.id}
        /\ \E res \in getDocumentsByTags(<<t>>, b.tenant, b.index, NoLimit) :
              IdsIn(res) = {b.id}

\* C8: when a delete has completed, get(id) is null and no tag row
\* references the id
C8_DeleteIsComplete ==
    \A p \in Procs :
        Done(p, "delete") =>
            /\ getDocument(procs[p].doc.id) = {}
            /\ \A t \in tagRows : t.search_document_id # procs[p].doc.id

\* a delete has completed for a document that existed and carried tags
C8_Witness ==
    \E p \in Procs :
        Done(p, "delete") /\ procs[p].pre # {} /\ procs[p].preTags # {}

\* C9: every tag row references a document row that exists
C9_NoOrphanTagRows ==
    \A t \in tagRows : RowsOf(t.search_document_id) # {}

\* C10: of two concurrent upserts of one (tenant, index, id) neither fails on
\* the unique index of the id, the id never has more than one row, and when
\* both have completed it has exactly one
C10_ConcurrentUpsertsAreAtomic ==
    \A p \in Procs, q \in Procs :
        (/\ p # q
         /\ procs[p].kind = "upsert" /\ procs[q].kind = "upsert"
         /\ procs[p].doc.id = procs[q].doc.id
         /\ procs[p].doc.tenant = procs[q].doc.tenant
         /\ procs[p].doc.index = procs[q].doc.index)
            => /\ procs[p].error # "documents.id"
               /\ Cardinality(RowsOf(procs[p].doc.id)) <= 1
               /\ (Done(p, "upsert") /\ Done(q, "upsert")
                      => Cardinality(RowsOf(procs[p].doc.id)) = 1)

\* C11: of two upserts of one document with the same tag list, without a
\* repeated tag, that are in flight together, neither fails on the unique
\* index of (tag, document id)
C11_ConcurrentTagInsertIsIdempotent ==
    \A p \in Procs, q \in Procs :
        (/\ p # q
         /\ procs[p].kind = "upsert" /\ procs[q].kind = "upsert"
         /\ procs[p].doc.id = procs[q].doc.id
         /\ procs[p].tags = procs[q].tags
         /\ Cardinality(Range(procs[p].tags)) = Len(procs[p].tags))
            => procs[p].error # "tags.unique"

\* C12: every stored document has createdAt <= updatedAt
C12_CreatedNotAfterUpdated ==
    \A r \in docs : r.created_at <= r.updated_at

\* C13: while a document is stored, no statement changes its createdAt, its
\* tenant or its index
C13_CreatedAtTenantIndexAreStable ==
    [][\A r \in docs : \A s \in docs' :
          r.id = s.id => /\ s.created_at = r.created_at
                         /\ s.tenant = r.tenant
                         /\ s.index = r.index]_vars

\* a later upsert has updated a document at a later time than its creation
C13_Witness ==
    \E p \in Procs :
        /\ Done(p, "upsert") /\ procs[p].pre # {}
        /\ \E r \in RowsOf(procs[p].doc.id) :
              /\ r.updated_at = procs[p].now
              /\ r.created_at < procs[p].now

\* the id of the upsert is stored under another tenant or index
IdTakenElsewhere(p) ==
    /\ procs[p].kind = "upsert"
    /\ \E r \in RowsOf(procs[p].doc.id) : ~MatchesKey(r, procs[p].doc)

\* C14: an upsert whose id is stored under another tenant or index changes no
\* document row and no tag row, and its write fails on the unique index of id
C14_IdReuseFailsAndChangesNothing ==
    [][\A p \in Procs :
          (IdTakenElsewhere(p) /\ procs[p].pc \in {"select", "write"}) =>
              /\ docs' = docs
              /\ tagRows' = tagRows
              /\ (procs[p].pc = "write" /\ procs'[p].pc # "write") =>
                     /\ procs'[p].pc = "failed"
                     /\ procs'[p].error = "documents.id"]_vars

\* an upsert has failed on the id of a tagged document of another tenant
C14_Witness ==
    \E p \in Procs :
        /\ IdTakenElsewhere(p)
        /\ procs[p].pc = "failed" /\ procs[p].error = "documents.id"
        /\ procs[p].preTags # {}
        /\ \E r \in RowsOf(procs[p].doc.id) : r.tenant # procs[p].doc.tenant
        /\ TagsOf(procs[p].doc.id) = procs[p].preTags

\* a delete in flight whose id had no document row when the delete began
DeletesAbsentId(p) ==
    /\ procs[p].kind = "delete"
    /\ \/ procs[p].pc = "deldoc" /\ RowsOf(procs[p].doc.id) = {}
       \/ procs[p].pc = "deltags" /\ procs[p].pre = {}

\* C15: a delete of an id that has no document row does not fail and changes
\* no document row and no tag row of another id; when no tag row has the id
\* either, as after a first delete, it changes nothing at all
C15_DeleteOfAbsentIdChangesNothing ==
    [][\A p \in Procs :
          DeletesAbsentId(p) =>
              /\ docs' = docs
              /\ {t \in tagRows' : t.search_document_id # procs[p].doc.id}
                    = {t \in tagRows : t.search_document_id # procs[p].doc.id}
              /\ TagsOf(procs[p].doc.id) = {} => tagRows' = tagRows
              /\ procs'[p].pc # "failed"]_vars

\* a delete of an id without document has completed while another document
\* and its tags are stored
C15_Witness ==
    \E p \in Procs :
        /\ Done(p, "delete") /\ procs[p].pre = {} /\ procs[p].preTags = {}
        /\ docs # {} /\ tagRows # {}

\* the ascending order of the ids (string comparison)
IdRank(id) == IF id = "d1" THEN 1 ELSE 2

\* updatedAt descending and, for equal updatedAt, id ascending
SortedByUpdatedThenId(res) ==
    \A i, j \in 1..Len(res) :
        i < j => \/ res[i].updatedAt > res[j].updatedAt
                 \/ /\ res[i].updatedAt = res[j].updatedAt
                    /\ IdRank(res[i].id) < IdRank(res[j].id)

\* C16: every result of list and of searchByTags is ordered by updatedAt
\* descending and, for equal updatedAt, by id ascending, so that a store state
\* allows one result only
C16_OrderIsUpdatedDescThenIdAsc ==
    \A tenant \in Tenants, index \in IndexOptions, limit \in Limits :
        /\ \A res \in getDocuments(tenant, index, limit) : SortedByUpdatedThenId(res)
        /\ Cardinality(getDocuments(tenant, index, limit)) = 1
        /\ \A tags \in TagLists :
              /\ \A res \in getDocumentsByTags(tags, tenant, index, limit) :
                    SortedByUpdatedThenId(res)
              /\ Cardinality(getDocumentsByTags(tags, tenant, index, limit)) = 1

Min(a, b) == IF a < b THEN a ELSE b

\* C17: list with limit n returns the first min(n, total) documents of what
\* list returns without a limit for the same tenant and index, and with an
\* index given only documents of that index
C17_LimitIsPrefixOfUnlimited ==
    \A tenant \in Tenants, index \in IndexOptions, n \in Limits \ {NoLimit} :
        \A full \in getDocuments(tenant, index, NoLimit) :
            \A res \in getDocuments(tenant, index, n) :
                /\ res = SubSeq(full, 1, Min(n, Len(full)))
                /\ index # NoIndex => \A i \in 1..Len(res) : res[i].index = index

\* the value upsertDocument / indexDocument resolves with:
\* { ...document, tags, createdAt: existing?.created_at ? ... : now, updatedAt: now };
\* the D1 adapter returns no tags property
UpsertResult(ad, me) ==
    [id |-> me.doc.id, tenant |-> me.doc.tenant, index |-> me.doc.index,
     data |-> me.doc.data,
     hasTags |-> (ad = "sqlite"),
     tags |-> IF ad = "sqlite" THEN me.tags ELSE <<>>,
     createdAt |-> IF \E e \in me.existing : e.created_at # 0
                   THEN (CHOOSE e \in me.existing : TRUE).created_at
                   ELSE me.now,
     updatedAt |-> me.now]

\* C18: the document a completed upsert returns has the data, createdAt and
\* updatedAt that get(id) returns right afterwards, and a tags field equal to
\* the tag set stored for the document
C18_UpsertReturnsWhatGetReturns ==
    \A p \in Procs :
        Done(p, "upsert") =>
            LET ret == UpsertResult(adapter, procs[p])
            IN  /\ getDocument(ret.id) # {}
                /\ \A g \in getDocument(ret.id) :
                      /\ ret.data = g.data
                      /\ ret.createdAt = g.createdAt
                      /\ ret.updatedAt = g.updatedAt
                      /\ ret.hasTags
                      /\ Range(ret.tags) = TagsOf(ret.id)
                      /\ g.hasTags => g.tags = Range(ret.tags)

\* the run in progress or just ended began on a backend on which an earlier
\* run had recorded every migration
RunsOnMigratedBackend ==
    /\ mig.runs > 1
    /\ mig.pc # "idle"
    /\ mig.startLedger = MigrationNames

\* C19: a migration run on a backend on which a run already completed applies
\* no migration, executes no DDL statement and leaves the ledger and the
\* schema as they were
C19_SecondRunChangesNothing ==
    RunsOnMigratedBackend =>
        /\ mig.ups = <<>>
        /\ mig.ddl = 0
        /\ mig.ledger = mig.startLedger
        /\ mig.schema = mig.startSchema
        /\ mig.table
        /\ ~mig.error

\* a second run has ended on a backend that the first run migrated completely
C19_Witness ==
    /\ RunsOnMigratedBackend
    /\ mig.pc = "replied"
    /\ mig.runs = 2
    /\ mig.schema = UNION {Range(UpStatements(n)) : n \in MigrationNames}

\* the migrations of this run whose up() has returned
Applied ==
    {mig.ups[i] : i \in {j \in 1..Len(mig.ups) :
                            j < Len(mig.ups) \/ mig.pc \in {"record", "pick"}
                            \/ (mig.pc \in {"settle", "replied"} /\ mig.failed = 0)}}

\* C20: a run applies migrations that were not recorded, in name order and
\* each once, and each is recorded before the next is applied; the recorded
\* names stay; when an apply has failed, no later migration has been applied,
\* the failed name is not recorded, and runMigrations rejects, so that the
\* caller replies with status 500
C20_RunAppliesInOrderAndSurfacesFailure ==
    /\ \A i, j \in 1..Len(mig.ups) : i < j => mig.ups[i] < mig.ups[j]
    /\ \A i \in 1..Len(mig.ups) : mig.ups[i] \notin mig.startLedger
    /\ \A i \in 1..Len(mig.ups) : i < Len(mig.ups) => mig.ups[i] \in mig.ledger
    /\ mig.startLedger \subseteq mig.ledger
    /\ mig.ledger \ mig.startLedger \subseteq Applied
    /\ mig.failed # 0 =>
          /\ mig.failed \notin mig.ledger
          /\ \A i \in 1..Len(mig.ups) : mig.ups[i] <= mig.failed
    /\ (mig.pc = "replied" /\ ~mig.error) => mig.ledger = MigrationNames
    /\ (mig.pc = "replied" /\ mig.failed # 0) =>
          /\ mig.outcome = "rejected"
          /\ mig.status = 500

\* C23: getAllTags returns each tag that some tag row carries, once, and no
\* other tag; between calls awaited one after the other these are the tags
\* that label a stored document
C23_GetTagsIsTheDistinctVocabulary ==
    /\ DOMAIN getTags = {r.tag : r \in tagRows}
    /\ (\A p \in Procs : ~InFlight(p)) =>
          DOMAIN getTags = UNION {TagsOf(d.id) : d \in docs}
    /\ \A t \in DOMAIN getTags : getTags[t] = 1

\* two documents of different tenants carry the same tag, which is returned
\* once, and a tag that no document carries is not returned
C23_Witness ==
    \E a \in docs, b \in docs, t \in Tags :
        /\ a.tenant # b.tenant
        /\ t \in TagsOf(a.id) /\ t \in TagsOf(b.id)
        /\ getTags[t] = 1
        /\ DOMAIN getTags = {t}

\* C24: a statement of an upsert or a delete of document d, whether it
\* succeeds or fails, leaves the document row and the tag rows of every other
\* id as they were
C24_OtherDocumentsAreUntouched ==
    [][\A p \in Procs :
          (procs[p].pc # "idle" /\ procs'[p] # procs[p]) =>
              \A id \in Ids \ {procs[p].doc.id} :
                  /\ {r \in docs' : r.id = id} = {r \in docs : r.id = id}
                  /\ {t \in tagRows' : t.search_document_id = id}
                        = {t \in tagRows : t.search_document_id = id}]_vars

\* an upsert or a delete has ended, with or without error, while a document
\* with another id and its tags are stored
C24_Witness ==
    \E p \in Procs, d \in docs :
        /\ procs[p].pc \in {"done", "failed"}
        /\ d.id # procs[p].doc.id
        /\ TagsOf(d.id) # {}

\* does every document of the result carry the tags that get(id) returns?
CarriesTagsOfGet(res) ==
    \A i \in 1..Len(res) : \A g \in getDocument(res[i].id) :
        /\ res[i].hasTags = g.hasTags
        /\ res[i].tags = g.tags

\* C25: every document returned by list or by searchByTags carries the tag
\* set that get(id) returns for it
C25_ResultsCarryStoredTags ==
    \A tenant \in Tenants, index \in IndexOptions, limit \in Limits :
        /\ \A res \in getDocuments(tenant, index, limit) : CarriesTagsOfGet(res)
        /\ \A tags \in TagLists :
              \A res \in getDocumentsByTags(tags, tenant, index, limit) :
                  CarriesTagsOfGet(res)

\* C22: the two adapters have the same semantics: when an upsert has
\* completed, the tag rows of its document are those that either adapter's
\* statements leave when run on the rows the upsert found
C22_AdaptersAgree ==
    \A p \in Procs :
        Done(p, "upsert") =>
            \A ad \in Adapters :
                TagsOf(procs[p].doc.id)
                    = TagsAfterDiff(ad, procs[p].tags, procs[p].preTags)

\* C27: the configuration of every server is the defaults of the source
\* overridden by the options of its own call, and DEFAULT_OPTIONS is what the
\* source defines
C27_ConfigDependsOnOwnOptionsOnly ==
    /\ config.defaults = DEFAULT_OPTIONS
    /\ \A i \in 1..Len(config.servers) :
          config.servers[i].config = merge(DEFAULT_OPTIONS, config.servers[i].options)

\* C26: no message receives more than one ack() or retry(), and none before
\* every delivery of the batch has settled; a message is acked exactly if its
\* own POST met an ok response and retried exactly if it met a response that
\* is not ok or an exception; when the handler returns every message has
\* received its call
C26_EveryMessageSettledOnceByItsOwnOutcome ==
    \A i \in 1..queue.size :
        /\ Len(queue.calls[i]) <= 1
        /\ queue.calls[i] # <<>> =>
              /\ \A j \in 1..queue.size : queue.result[j] # "pending"
              /\ queue.calls[i] = <<"ack">> <=> queue.response[i] = "ok"
              /\ queue.calls[i] = <<"retry">> <=> queue.response[i] \in {"notOk", "threw"}
        /\ queue.pc = "returned" => Len(queue.calls[i]) = 1

\* the handler has returned from a batch in which one delivery met an ok
\* response, one a response that is not ok and one an exception
C26_Witness ==
    /\ queue.pc = "returned"
    /\ \E i, j, k \in 1..queue.size :
          /\ queue.response[i] = "ok" /\ queue.calls[i] = <<"ack">>
          /\ queue.response[j] = "notOk" /\ queue.calls[j] = <<"retry">>
          /\ queue.response[k] = "threw" /\ queue.calls[k] = <<"retry">>

\* C21: a document operation is executed against the backend only when a
\* migration run has completed successfully
C21_NoOperationBeforeMigration ==
    service.executed => service.migrated

====
